---- MODULE Spec2Model ----
(***************************************************************************)
(* Order placement of the storefront server: POST /api/orders              *)
(* (src/src/routes/orders.js, lines 113-266) over the relational store     *)
(* declared in src/prisma/schema.prisma.                                   *)
(*                                                                         *)
(* Persisted state is what other requests can read: committed rows only.   *)
(* A placement runs in the steps separated by its awaits: the synchronous  *)
(* validation, the variant query, and the statements of the interactive    *)
(* transaction, whose writes stay private to the call until the commit.    *)
(* The product update of the administrator, PUT /api/admin/products/:id    *)
(* (src/src/routes/admin.js, lines 209-306), writes the product's name     *)
(* and the size, the color, the stock and the price of variants beside it, *)
(* statement by statement.  Three more handlers run beside them: the order *)
(* status update, PUT /api/admin/orders/:id/status (admin.js, lines        *)
(* 408-465), the reads of orders, GET /api/orders and GET /api/orders/:id  *)
(* (orders.js, lines 9-110), and the addition to a cart, POST /api/cart    *)
(* (src/unnamed/part_003, lines 56-170).                                   *)
(*                                                                         *)
(* Numbers.  Quantities are JSON numbers, so a request may carry a         *)
(* non-integer one: a quantity is the record [int, half] standing for      *)
(* int + 1/2 when half is set.  Money is counted in cents.  The handler    *)
(* adds money up as JavaScript Numbers: such a value is counted in ulps,   *)
(* UlpPerCent to the cent, and every multiplication or addition may be off *)
(* by one ulp.  The Decimal(10,2) column rounds what it stores to cents.   *)
(***************************************************************************)
EXTENDS Integers, Sequences, FiniteSets, TLC

\* ------------------------------------------------------------------ bounds
NumCalls    == 2      \* placements that may be in flight together
MaxItems    == 2      \* longest items array of a request
MaxQty      == 2      \* largest quantity of a request item
MaxStock    == 3      \* largest initial stock_qty of a variant
NumAdders   == 2      \* additions to a cart that may be in flight together

Variants  == {1, 2}                   \* the ids of the rows of product_variants
Users     == {1, 2}                   \* the ids of the authenticated users
Calls     == 1..NumCalls
UnknownId == Cardinality(Variants) + 1 \* an id that resolves to no variant

\* ------------------------------------------------------- JavaScript numbers
Num(n)     == [int |-> n, half |-> FALSE]
NumHalf(n) == [int |-> n, half |-> TRUE]
Twice(x)   == 2 * x.int + (IF x.half THEN 1 ELSE 0)
\* !x for a number or a missing field (undefined and 0 are both falsy)
Falsy(x)   == Twice(x) = 0
\* x < y
Lt(x, y)   == Twice(x) < Twice(y)
\* Prisma accepts only an integer for an Int column
IsInt(x)   == ~x.half

\* An accumulated Number is exact to within one ulp per operation; with
\* UlpPerCent ulps to the cent the error of a whole sum stays below half a
\* cent, as it does for IEEE doubles at the magnitudes Decimal(10,2) allows.
UlpPerCent == 4 * (2 * MaxItems + 1)
FloatErr   == {-1, 0, 1}

\* ------------------------------------------------------------- the requests
\* An item of req.body.items.  A missing variant_id is 0 and a missing
\* quantity is Num(0): the handler tests both with !x, which does not tell
\* undefined from 0.
Item(v, q) == [variant_id |-> v, quantity |-> q]

\* the items of an existing variant and a positive integer quantity
GoodItems == {Item(v, Num(n)) : v \in Variants, n \in 1..MaxQty}
\* no variant_id; no quantity (or 0); a negative quantity; the quantity 1.5,
\* of a variant and of no variant; an unknown variant
BadItems ==
  {Item(0, Num(1)), Item(1, Num(0)), Item(1, Num(-1)), Item(1, NumHalf(1)),
   Item(UnknownId, NumHalf(1)), Item(UnknownId, Num(1))}
AllItems == GoodItems \cup BadItems

ArraysOf(S, n) == UNION {[1..k -> S] : k \in 0..n}

\* req.body.items: absent, present but not an array, or an array
NoItems     == [kind |-> "absent", items |-> <<>>]
NotAnArray  == [kind |-> "notArray", items |-> <<>>]
ArrayOf(xs) == [kind |-> "array", items |-> xs]

\* The bodies one placement may carry when it runs alone: every shape.
SingleBodies ==
  {NoItems, NotAnArray} \cup {ArrayOf(xs) : xs \in ArraysOf(AllItems, MaxItems)}

\* The bodies of placements that run together: one of each rejected shape,
\* the order of MaxQty units of variant 1, and the two orders of one unit of
\* variants 1 and 2, in either order.
ConcurrentBodies ==
  {ArrayOf(<<>>), ArrayOf(<<Item(1, Num(0))>>), ArrayOf(<<Item(UnknownId, Num(1))>>),
   ArrayOf(<<Item(1, Num(MaxQty))>>),
   ArrayOf(<<Item(1, Num(1)), Item(2, Num(1))>>),
   ArrayOf(<<Item(2, Num(1)), Item(1, Num(1))>>)}

\* The two orders of ConcurrentBodies whose transactions take the rows of
\* variants 1 and 2 in opposite order: call c sends the one or the other.
CrossingBody(c) ==
  IF c % 2 = 0 THEN ArrayOf(<<Item(2, Num(1)), Item(1, Num(1))>>)
  ELSE ArrayOf(<<Item(1, Num(1)), Item(2, Num(1))>>)

\* The additions to a cart that may be in flight together.
Adders == 1..NumAdders

\* The cart rows of the users in U: one row of one unit per variant.
CartOf(U) ==
  {[id |-> 2 * (u - 1) + v, user_id |-> u, variant_id |-> v, quantity |-> 1]
     : u \in U, v \in Variants}

\* req.body.payment_method when the body has none (undefined)
NoPaymentMethod == "<undefined>"

\* "single": one placement, of any shape.  "concurrent": placements in
\* flight together.  "cart": one placement, by any user, with or without a
\* payment method, when no user, user 1 alone, or every user has a cart.
\* "catalog": one placement while an administrator updates a product.
\* "waiting": placements in flight together that wait for each other's row
\* locks: call 1 as in "concurrent", the others with a crossing order.
\* "status": the placements of "waiting", on a stock that serves them all,
\* while an administrator updates the status of an order.
\* "reads": the placements of "status" while users read their orders.
\* "adding": additions to the carts of a user who has none and of a user
\* who has one, in flight together.
Workloads == {"single", "concurrent", "cart", "catalog", "waiting", "status",
              "reads", "adding"}
ReqBodies(w, c) == CASE w = "single"  -> SingleBodies
                     [] w \in {"waiting", "status", "reads"} ->
                          IF c = 1 THEN ConcurrentBodies ELSE {CrossingBody(c)}
                     [] OTHER         -> ConcurrentBodies
ReqCalls(w)    == IF w \in {"concurrent", "waiting", "status", "reads"} THEN Calls ELSE {1}
ReqUsers(w, c) == CASE w = "single"     -> {1}
                    [] w \in {"concurrent", "waiting", "status", "reads"} -> {((c - 1) % 2) + 1}
                    [] OTHER            -> Users
\* req.body.payment_method: absent, the empty string, or a label
ReqPayments(w) == IF w = "cart" THEN {NoPaymentMethod, "", "PayPal"}
                  ELSE {NoPaymentMethod}
\* the carts and the stocks the workload starts from
InitCarts(w)   == CASE w = "cart"   -> {CartOf({}), CartOf({1}), CartOf(Users)}
                    [] w = "adding" -> {CartOf({2})}
                    [] OTHER        -> {CartOf(Users)}
InitStocks(w)  == CASE w = "single"  -> [Variants -> 0..MaxStock]
                    [] w = "waiting" -> {[v \in Variants |-> 1]}
                    [] w \in {"status", "reads"} -> {[v \in Variants |-> MaxQty]}
                    [] w = "adding"  -> {[v \in Variants |-> MaxStock]}
                    [] OTHER         -> {[v \in Variants |-> s] : s \in 0..MaxStock}

\* An element of req.body.variants of PUT /api/admin/products/:id that names
\* an existing variant: its new stock_qty and its new price, in cents, with
\* the size and the color the request gives it.
VariantEdit(v, s, p) == [id |-> v, stock_qty |-> s, price |-> p,
                         size |-> "XL", color |-> "red"]

\* req.body.name of the product updates
NewName == "Tee II"

\* The variants arrays of the product updates: none, one variant emptied or
\* restocked at a new or at its old price, and both variants at once.
CatalogBodies ==
  {<<>>} \cup {<<VariantEdit(1, s, p)>> : s \in {0, MaxStock}, p \in {1000, 1250}}
         \cup {<<VariantEdit(2, MaxStock, 1500), VariantEdit(1, 0, 1250)>>}

\* ---------------------------------------------------------------- the state
VARIABLES
  workload,      \* which requests arrive (fixed by the initial state)
  admin,         \* where the product update stands, its variants and its answer
  statusUpdate,  \* where the order status update stands, its order and its answer
  got,           \* the answer to the last read of orders
  adds,          \* where each addition to a cart stands, its request and answer
  cart_id_seq,   \* the sequence behind cart_items.id
  stock,         \* product_variants.stock_qty, by variant id
  price,         \* product_variants.price in cents, by variant id
  descr,         \* products.name and product_variants.size, color, edition
  orders,        \* the committed rows of orders, each with its order_items
  order_id_seq,  \* the sequence behind orders.id (never rolled back)
  cart,          \* the committed rows of cart_items
  logs,          \* the committed rows of activity_logs
  pc,            \* where each placement stands
  req,           \* its request: user, body, payment_method
  variants,      \* its result of product_variants.findMany
  totalAmount,   \* its accumulated Number, in ulps
  orderItems,    \* its order_items to create
  tx,            \* the uncommitted writes of its transaction
  res            \* its response

db     == <<stock, price, descr, orders, cart, logs>>
cartAdds == <<adds, cart_id_seq>>
placing  == <<pc, req, variants, totalAmount, orderItems, tx, res>>
side   == <<admin, statusUpdate, got, cartAdds>>
vars   == <<workload, admin, statusUpdate, got, adds, cart_id_seq, stock, price, descr, orders, order_id_seq, cart, logs,
            pc, req, variants, totalAmount, orderItems, tx, res>>

NoReq == [user |-> 0, body |-> NoItems, payment_method |-> NoPaymentMethod]
NoOrder == [id |-> 0, user_id |-> 0, total_amount |-> 0, payment_method |-> "",
            is_paid |-> FALSE, status |-> "", order_items |-> <<>>]
NoLog == [user_id |-> 0, action |-> "", order_id |-> 0, items |-> 0]
NoTx  == [newOrder |-> NoOrder, i |-> 0, dec |-> [v \in Variants |-> 0],
          cartDeleted |-> {}, log |-> NoLog]
NoAdmin == [pc |-> "idle", variants |-> <<>>, i |-> 0, status |-> 0]
NoStatusUpdate == [pc |-> "idle", id |-> 0, status |-> 0]
NoGot == [user |-> 0, id |-> 0, status |-> 0, message |-> "", count |-> 0,
          data |-> {}]
NoAdd == [pc |-> "idle", user |-> 0, variant_id |-> 0, quantity |-> 0,
          existingItem |-> [id |-> 0, quantity |-> 0], status |-> 0,
          message |-> ""]
NoRes == [status |-> 0, message |-> "", variant |-> 0, data |-> NoOrder]

\* The catalogue prices the model starts from, in cents: 10.00, 19.99, ...
InitPrice(v) == 1000 + 999 * (v - 1)

\* What the catalogue says of variant v at the start: one product in two
\* sizes.
InitDescr(v) == [product_name |-> "Tee", size |-> IF v = 1 THEN "M" ELSE "L",
                 color |-> "black", edition |-> "standard"]

InitWith(w) ==
  /\ workload = w
  /\ admin = NoAdmin
  /\ statusUpdate = NoStatusUpdate
  /\ got = NoGot
  /\ adds = [a \in Adders |-> NoAdd]
  /\ cart_id_seq = 2 * Cardinality(Users)
  /\ stock \in InitStocks(w)
  /\ price = [v \in Variants |-> InitPrice(v)]
  /\ descr = [v \in Variants |-> InitDescr(v)]
  /\ orders = <<>>
  /\ order_id_seq = 0
  /\ cart \in InitCarts(w)
  /\ logs = <<>>
  /\ pc = [c \in Calls |-> "idle"]
  /\ req = [c \in Calls |-> NoReq]
  /\ variants = [c \in Calls |-> {}]
  /\ totalAmount = [c \in Calls |-> 0]
  /\ orderItems = [c \in Calls |-> <<>>]
  /\ tx = [c \in Calls |-> NoTx]
  /\ res = [c \in Calls |-> NoRes]

Init       == InitWith("concurrent")
InitSingle == InitWith("single")
InitCart   == InitWith("cart")
InitCatalog == InitWith("catalog")
InitWaiting == InitWith("waiting")
InitStatus  == InitWith("status")
InitReads   == InitWith("reads")
InitAdding  == InitWith("adding")

\* ------------------------------------------------------------ the messages
EmptyOrderMsg   == "Order must contain at least one item"
InvalidItemMsg  == "Each item must have a valid variant_id and quantity"
NotFoundMsg     == "One or more requested product variants do not exist"
NoStockMsg      == "Not enough stock for"
FailedMsg       == "Failed to create order"

\* res.status(s).json({success: false, message: m}); v is the variant whose
\* product name, color and size the message quotes (0: none)
Failure(s, m, v) == [status |-> s, message |-> m, variant |-> v, data |-> NoOrder]
\* res.status(201).json({success: true, data: order})
Created(order) == [status |-> 201, message |-> "", variant |-> 0, data |-> order]

\* The body that res.json sends for the answer r.  The message of the stock
\* check quotes variant.products.name, variant.color and variant.size, here
\* each the id of the variant they are read from; the requested and the
\* available quantity go to logger.warn alone.
Json(r) ==
  CASE r.status = 201         -> [success |-> TRUE, data |-> r.data]
    [] r.message = NoStockMsg -> [success |-> FALSE, message |-> r.message,
                                  productName |-> r.variant, color |-> r.variant,
                                  size |-> r.variant]
    [] OTHER                  -> [success |-> FALSE, message |-> r.message]

\* --------------------------------------------------- the synchronous checks
\* (the check without its items.length === 0)
EmptyItemsNoLength(body) ==
  body.kind = "absent" \/ body.kind = "notArray"

\* if (!items || !Array.isArray(items) || items.length === 0)
EmptyItems(body) ==
  body.kind = "absent" \/ body.kind = "notArray" \/ Len(body.items) = 0

\* (the check of the variant id alone)
InvalidItemIdOnly(item) == item.variant_id = 0

\* if (!item.variant_id || !item.quantity || item.quantity < 1)
InvalidItem(item) ==
  item.variant_id = 0 \/ Falsy(item.quantity) \/ Lt(item.quantity, Num(1))

\* for (const item of items): some item is refused
SomeInvalidItem(items) == \E i \in DOMAIN items : InvalidItem(items[i])

\* The requests call c may receive: the authenticated user (req.user.id)
\* and const { items, payment_method } = req.body
Requests(c) ==
  [user : ReqUsers(workload, c), body : ReqBodies(workload, c),
   payment_method : ReqPayments(workload)]

\* Call c has not begun.
Idle(c) == c \in ReqCalls(workload) /\ pc[c] = "idle"

\* The request r of call c arrives.
Arrives(c, r) == req' = [req EXCEPT ![c] = r]

\* The call answers and returns.
Respond(c, r) ==
  /\ res' = [res EXCEPT ![c] = r]
  /\ pc' = [pc EXCEPT ![c] = "done"]
  /\ totalAmount' = [totalAmount EXCEPT ![c] = 0]
  /\ orderItems' = [orderItems EXCEPT ![c] = <<>>]
  /\ tx' = [tx EXCEPT ![c] = NoTx]

RejectEmpty(c) ==
  /\ Idle(c)
  /\ \E r \in Requests(c) :
    /\ Arrives(c, r)
    /\ EmptyItems(r.body)
    /\ Respond(c, Failure(400, EmptyOrderMsg, 0))
    /\ UNCHANGED <<workload, side, db, order_id_seq, variants>>

RejectInvalidItem(c) ==
  /\ Idle(c)
  /\ \E r \in Requests(c) :
    /\ Arrives(c, r)
    /\ ~EmptyItems(r.body)
    /\ SomeInvalidItem(r.body.items)
    /\ Respond(c, Failure(400, InvalidItemMsg, 0))
    /\ UNCHANGED <<workload, side, db, order_id_seq, variants>>

\* The checks pass and the handler awaits prisma.product_variants.findMany.
StartFetch(c) ==
  /\ Idle(c)
  /\ \E r \in Requests(c) :
    /\ Arrives(c, r)
    /\ ~EmptyItems(r.body)
    /\ ~SomeInvalidItem(r.body.items)
    /\ pc' = [pc EXCEPT ![c] = "fetch"]
    /\ UNCHANGED <<workload, side, db, order_id_seq, variants, totalAmount, orderItems, tx, res>>

\* ------------------------------------------------------- the variant query
\* const variantIds = items.map(item => item.variant_id)
VariantIds(items) == [i \in DOMAIN items |-> items[i].variant_id]

\* prisma.product_variants.findMany({ where: { id: { in: variantIds } } }):
\* the committed rows whose id is in the list, each once
FindMany(ids) ==
  {[id |-> v, stock_qty |-> stock[v], price |-> price[v],
    product_name |-> descr[v].product_name, size |-> descr[v].size,
    color |-> descr[v].color, edition |-> descr[v].edition]
     : v \in {x \in Variants : \E i \in DOMAIN ids : ids[i] = x}}

\* (the comparison turned into one that no query result meets)
VariantsMissingNever(ids, found) == Cardinality(found) > Len(ids)

\* if (variants.length !== variantIds.length)
VariantsMissing(ids, found) == Cardinality(found) # Len(ids)

\* variants.find(v => v.id === id): the rows found (none: undefined)
Find(found, id) == {r \in found : r.id = id}
Row(found, id)  == CHOOSE r \in found : r.id = id

\* if (variant.stock_qty < item.quantity)
Insufficient(variant, item) == Lt(Num(variant.stock_qty), item.quantity)

SetMin(S) == CHOOSE x \in S : \A y \in S : x <= y

\* (the loop run over the rows of the query result, by ascending id,
\* instead of over the submitted items)
LoopStopByRow(items, found) ==
  LET stops == {i \in DOMAIN items :
                  \/ Find(found, items[i].variant_id) = {}
                  \/ Insufficient(Row(found, items[i].variant_id), items[i])}
  IN  IF stops = {} THEN 0
      ELSE CHOOSE i \in stops :
             \A j \in stops : items[i].variant_id < items[j].variant_id
                                \/ (items[i].variant_id = items[j].variant_id /\ i <= j)

\* for (const item of items): the index of the item at which the loop is
\* left, 0 when it runs to its end.  It is left by the return of the stock
\* check, or by the TypeError of reading stock_qty of undefined.
LoopStop(items, found) ==
  LET stops == {i \in DOMAIN items :
                  \/ Find(found, items[i].variant_id) = {}
                  \/ Insufficient(Row(found, items[i].variant_id), items[i])}
  IN  IF stops = {} THEN 0 ELSE SetMin(stops)

\* variant.price * item.quantity, a Number
FloatMul(p, q) == {(p * UlpPerCent * Twice(q)) \div 2 + e : e \in FloatErr}

\* totalAmount += variant.price * item.quantity, over the first k items
\* (the first addition, to 0, is exact)
RECURSIVE Totals(_, _, _)
Totals(items, found, k) ==
  IF k = 0 THEN {0}
  ELSE {t + m + e : t \in Totals(items, found, k - 1),
                    m \in FloatMul(Row(found, items[k].variant_id).price,
                                   items[k].quantity),
                    e \in IF k = 1 THEN {0} ELSE FloatErr}

\* orderItems.push({ variant_id, ..., unit_price: variant.price, quantity })
OrderItems(items, found) ==
  [i \in DOMAIN items |->
     [variant_id   |-> Row(found, items[i].variant_id).id,
      product_name |-> Row(found, items[i].variant_id).product_name,
      size         |-> Row(found, items[i].variant_id).size,
      color        |-> Row(found, items[i].variant_id).color,
      edition      |-> Row(found, items[i].variant_id).edition,
      unit_price   |-> Row(found, items[i].variant_id).price,
      quantity     |-> items[i].quantity]]

\* The query answers with fewer or more rows than ids were asked for.
FetchNotFound(c) ==
  LET items == req[c].body.items
      found == FindMany(VariantIds(items))
  IN  /\ pc[c] = "fetch"
      /\ VariantsMissing(VariantIds(items), found)
      /\ variants' = [variants EXCEPT ![c] = found]
      /\ Respond(c, Failure(400, NotFoundMsg, 0))
      /\ UNCHANGED <<workload, side, db, order_id_seq, req>>

\* The stock loop is left early.
FetchInsufficient(c) ==
  LET items == req[c].body.items
      found == FindMany(VariantIds(items))
      k     == LoopStop(items, found)
  IN  /\ pc[c] = "fetch"
      /\ ~VariantsMissing(VariantIds(items), found)
      /\ k # 0
      /\ variants' = [variants EXCEPT ![c] = found]
      /\ IF Find(found, items[k].variant_id) = {}
           THEN Respond(c, Failure(500, FailedMsg, 0))
           ELSE Respond(c, Failure(400, NoStockMsg, items[k].variant_id))
      /\ UNCHANGED <<workload, side, db, order_id_seq, req>>

\* The stock loop runs to its end and the handler awaits prisma.$transaction.
FetchOk(c) ==
  LET items == req[c].body.items
      found == FindMany(VariantIds(items))
  IN  /\ pc[c] = "fetch"
      /\ ~VariantsMissing(VariantIds(items), found)
      /\ LoopStop(items, found) = 0
      /\ variants' = [variants EXCEPT ![c] = found]
      /\ \E t \in Totals(items, found, Len(items)) :
           totalAmount' = [totalAmount EXCEPT ![c] = t]
      /\ orderItems' = [orderItems EXCEPT ![c] = OrderItems(items, found)]
      /\ pc' = [pc EXCEPT ![c] = "txCreate"]
      /\ UNCHANGED <<workload, side, db, order_id_seq, req, tx, res>>

\* --------------------------------------------------------- the transaction
\* The statements of prisma.$transaction(async (tx) => ...).  What they write
\* is held in tx[c] and reaches the committed rows at the commit.  An UPDATE
\* of a variant row locks it until the transaction ends.
TxPcs == {"txCreate", "txUpdate", "txCart", "txLog", "txCommit"}

\* (the column truncating instead of rounding)
StoreDecimalTruncates(x) == x \div UlpPerCent

\* A Number stored in a Decimal(10,2) column is rounded to cents.
StoreDecimal(x) == (x + UlpPerCent \div 2) \div UlpPerCent

\* (the supplied label ignored)
PaymentMethodFixed(p) == "Credit Card"

\* payment_method || 'Credit Card': undefined and "" are both falsy
PaymentMethod(p) == IF p \in {NoPaymentMethod, ""} THEN "Credit Card" ELSE p

\* (the lines priced from the variant rows as they are when the order is
\* created, not from the snapshot the total was summed from)
NewOrderAtCurrentPrice(id, c) ==
  [id             |-> id,
   user_id        |-> req[c].user,
   total_amount   |-> StoreDecimal(totalAmount[c]),
   payment_method |-> PaymentMethod(req[c].payment_method),
   is_paid        |-> TRUE,
   status         |-> "processing",
   order_items    |-> [i \in DOMAIN orderItems[c] |->
                         [orderItems[c][i] EXCEPT
                            !.unit_price = price[orderItems[c][i].variant_id],
                            !.quantity = orderItems[c][i].quantity.int]
                           @@ [subtotal |-> price[orderItems[c][i].variant_id]
                                             * orderItems[c][i].quantity.int]]]

\* (the lines described from the variant rows as they are when the order
\* is created, not from the snapshot)
NewOrderAsCatalogued(id, c) ==
  [id             |-> id,
   user_id        |-> req[c].user,
   total_amount   |-> StoreDecimal(totalAmount[c]),
   payment_method |-> PaymentMethod(req[c].payment_method),
   is_paid        |-> TRUE,
   status         |-> "processing",
   order_items    |-> [i \in DOMAIN orderItems[c] |->
                         [orderItems[c][i] EXCEPT
                            !.product_name = descr[orderItems[c][i].variant_id].product_name,
                            !.size = descr[orderItems[c][i].variant_id].size,
                            !.color = descr[orderItems[c][i].variant_id].color,
                            !.quantity = orderItems[c][i].quantity.int]
                           @@ [subtotal |-> orderItems[c][i].unit_price
                                             * orderItems[c][i].quantity.int]]]

\* The row of orders and its order_items that tx.orders.create writes;
\* subtotal is the column default unit_price * quantity.
NewOrder(id, c) ==
  [id             |-> id,
   user_id        |-> req[c].user,
   total_amount   |-> StoreDecimal(totalAmount[c]),
   payment_method |-> PaymentMethod(req[c].payment_method),
   is_paid        |-> TRUE,
   status         |-> "processing",
   order_items    |-> [i \in DOMAIN orderItems[c] |->
                         [variant_id   |-> orderItems[c][i].variant_id,
                          product_name |-> orderItems[c][i].product_name,
                          size         |-> orderItems[c][i].size,
                          color        |-> orderItems[c][i].color,
                          edition      |-> orderItems[c][i].edition,
                          unit_price   |-> orderItems[c][i].unit_price,
                          quantity     |-> orderItems[c][i].quantity.int,
                          subtotal     |-> orderItems[c][i].unit_price
                                             * orderItems[c][i].quantity.int]]]

\* (the decrements written through the client instead of the transaction:
\* they stay when the transaction is rolled back)
RollbackKeepsStock(c) ==
  /\ stock' = [v \in Variants |-> stock[v] - tx[c].dec[v]]
  /\ UNCHANGED <<price, descr, orders, cart, logs>>

\* The transaction of call c ends without a commit: none of its writes
\* reaches the committed rows.
Rollback(c) == UNCHANGED db

\* catch (error): res.status(500)
Fails(c) ==
  /\ Rollback(c)
  /\ Respond(c, Failure(500, FailedMsg, 0))

\* tx.orders.create.  Prisma refuses a quantity that is no integer for the
\* Int column before it sends anything; otherwise the row takes the next
\* value of the id sequence.
TxCreateOrder(c) ==
  /\ pc[c] = "txCreate"
  /\ IF \E i \in DOMAIN orderItems[c] : ~IsInt(orderItems[c][i].quantity)
       THEN /\ Fails(c)
            /\ UNCHANGED <<workload, side, order_id_seq, req, variants>>
       ELSE /\ order_id_seq' = order_id_seq + 1
            /\ tx' = [tx EXCEPT ![c].newOrder = NewOrder(order_id_seq + 1, c),
                                ![c].i = 1]
            /\ pc' = [pc EXCEPT ![c] =
                        IF Len(req[c].body.items) = 0 THEN "txCart" ELSE "txUpdate"]
            \* totalAmount and orderItems have had their last use
            /\ totalAmount' = [totalAmount EXCEPT ![c] = 0]
            /\ orderItems' = [orderItems EXCEPT ![c] = <<>>]
            /\ UNCHANGED <<workload, side, db, req, variants, res>>

\* The rows of product_variants that the transaction of call c has locked.
Locked(c) == {v \in Variants : pc[c] \in TxPcs /\ tx[c].dec[v] > 0}

\* (the update decrementing by one unit whatever the quantity)
TxUpdateByOne(c) ==
  LET items == req[c].body.items
      i     == tx[c].i
      v     == items[i].variant_id
  IN  /\ pc[c] = "txUpdate"
      /\ \A d \in Calls \ {c} : v \notin Locked(d)
      /\ tx' = [tx EXCEPT ![c].dec[v] = @ + 1, ![c].i = i + 1]
      /\ pc' = [pc EXCEPT ![c] = IF i = Len(items) THEN "txCart" ELSE "txUpdate"]
      /\ UNCHANGED <<workload, side, db, order_id_seq, req, variants, totalAmount,
                     orderItems, res>>

\* (the update without its where: every variant is decremented)
TxUpdateOfAll(c) ==
  LET items == req[c].body.items
      i     == tx[c].i
      v     == items[i].variant_id
  IN  /\ pc[c] = "txUpdate"
      /\ \A d \in Calls \ {c} : v \notin Locked(d)
      /\ tx' = [tx EXCEPT ![c].dec = [w \in Variants |-> @[w] + items[i].quantity.int],
                          ![c].i = i + 1]
      /\ pc' = [pc EXCEPT ![c] = IF i = Len(items) THEN "txCart" ELSE "txUpdate"]
      /\ UNCHANGED <<workload, side, db, order_id_seq, req, variants, totalAmount,
                     orderItems, res>>

\* tx.product_variants.update({ data: { stock_qty: { decrement } } }) for
\* item tx[c].i: it waits while another transaction holds the row.
TxUpdate(c) ==
  LET items == req[c].body.items
      i     == tx[c].i
      v     == items[i].variant_id
  IN  /\ pc[c] = "txUpdate"
      /\ \A d \in Calls \ {c} : v \notin Locked(d)
      /\ tx' = [tx EXCEPT ![c].dec[v] = @ + items[i].quantity.int,
                          ![c].i = i + 1]
      /\ pc' = [pc EXCEPT ![c] = IF i = Len(items) THEN "txCart" ELSE "txUpdate"]
      /\ UNCHANGED <<workload, side, db, order_id_seq, req, variants, totalAmount,
                     orderItems, res>>

\* (deleteMany without its where: every cart is emptied)
TxClearCartOfAll(c) ==
  /\ pc[c] = "txCart"
  /\ tx' = [tx EXCEPT ![c].cartDeleted = cart]
  /\ pc' = [pc EXCEPT ![c] = "txLog"]
  /\ UNCHANGED <<workload, side, db, order_id_seq, req, variants, totalAmount,
                 orderItems, res>>

\* (deleteMany narrowed to the variants of the order)
TxClearCartOfOrdered(c) ==
  /\ pc[c] = "txCart"
  /\ tx' = [tx EXCEPT ![c].cartDeleted =
              {r \in cart : /\ r.user_id = req[c].user
                            /\ \E i \in DOMAIN req[c].body.items :
                                 req[c].body.items[i].variant_id = r.variant_id}]
  /\ pc' = [pc EXCEPT ![c] = "txLog"]
  /\ UNCHANGED <<workload, side, db, order_id_seq, req, variants, totalAmount,
                 orderItems, res>>

\* tx.cart_items.deleteMany({ where: { user_id: userId } })
TxClearCart(c) ==
  /\ pc[c] = "txCart"
  /\ tx' = [tx EXCEPT ![c].cartDeleted = {r \in cart : r.user_id = req[c].user}]
  /\ pc' = [pc EXCEPT ![c] = "txLog"]
  /\ UNCHANGED <<workload, side, db, order_id_seq, req, variants, totalAmount,
                 orderItems, res>>

\* tx.activity_logs.create: `Created order #id with n items`
TxLog(c) ==
  /\ pc[c] = "txLog"
  /\ tx' = [tx EXCEPT ![c].log =
              [user_id |-> req[c].user, action |-> "CREATE_ORDER",
               order_id |-> tx[c].newOrder.id,
               items |-> Len(req[c].body.items)]]
  /\ pc' = [pc EXCEPT ![c] = "txCommit"]
  /\ UNCHANGED <<workload, side, db, order_id_seq, req, variants, totalAmount,
                 orderItems, res>>

\* (the commit without the log entry)
TxCommitWithoutLog(c) ==
  /\ pc[c] = "txCommit"
  /\ orders' = Append(orders, tx[c].newOrder)
  /\ stock' = [v \in Variants |-> stock[v] - tx[c].dec[v]]
  /\ cart' = cart \ tx[c].cartDeleted
  /\ logs' = logs
  /\ Respond(c, Created(tx[c].newOrder))
  /\ UNCHANGED <<workload, side, price, descr, order_id_seq, req, variants>>

\* (the decrements written as the stock of the snapshot less the quantity,
\* not as a decrement of the row)
TxCommitFromSnapshot(c) ==
  /\ pc[c] = "txCommit"
  /\ orders' = Append(orders, tx[c].newOrder)
  /\ stock' = [v \in Variants |->
                IF tx[c].dec[v] = 0 THEN stock[v]
                ELSE (CHOOSE r \in variants[c] : r.id = v).stock_qty - tx[c].dec[v]]
  /\ cart' = cart \ tx[c].cartDeleted
  /\ logs' = Append(logs, tx[c].log)
  /\ Respond(c, Created(tx[c].newOrder))
  /\ UNCHANGED <<workload, side, price, descr, order_id_seq, req, variants>>

\* The callback returns newOrder, the transaction commits and the handler
\* answers 201 with the order.
TxCommit(c) ==
  /\ pc[c] = "txCommit"
  /\ orders' = Append(orders, tx[c].newOrder)
  /\ stock' = [v \in Variants |-> stock[v] - tx[c].dec[v]]
  /\ cart' = cart \ tx[c].cartDeleted
  /\ logs' = Append(logs, tx[c].log)
  /\ Respond(c, Created(tx[c].newOrder))
  /\ UNCHANGED <<workload, side, price, descr, order_id_seq, req, variants>>

\* (a rejected activity_logs.create caught inside the callback: the rest of
\* the transaction commits and the handler answers 201)
ThrowButLogSwallowed(c) ==
  /\ pc[c] \in {"fetch"} \cup TxPcs
  /\ IF pc[c] = "txLog"
       THEN /\ orders' = Append(orders, tx[c].newOrder)
            /\ stock' = [v \in Variants |-> stock[v] - tx[c].dec[v]]
            /\ cart' = cart \ tx[c].cartDeleted
            /\ UNCHANGED <<price, descr, logs>>
            /\ Respond(c, Created(tx[c].newOrder))
       ELSE Fails(c)
  /\ UNCHANGED <<workload, side, order_id_seq, req, variants>>

\* (the store never breaking a wait for a row lock)
ThrowUnlessWaiting(c) ==
  /\ pc[c] \in {"fetch"} \cup TxPcs
  /\ pc[c] = "txUpdate" =>
       \A d \in Calls \ {c} :
         req[c].body.items[tx[c].i].variant_id \notin Locked(d)
  /\ Fails(c)
  /\ UNCHANGED <<workload, side, order_id_seq, req, variants>>

\* An awaited store call rejects (a lost connection, the transaction's
\* timeout, a deadlock the store breaks): the transaction, if one is open,
\* is rolled back and the catch block answers.
Throw(c) ==
  /\ pc[c] \in {"fetch"} \cup TxPcs
  /\ Fails(c)
  /\ UNCHANGED <<workload, side, order_id_seq, req, variants>>

\* ------------------------------------------------------ the product update
\* PUT /api/admin/products/:id.  Its writes are single statements of the
\* client, in no transaction: each is committed as it returns.

\* The request arrives and prisma.products.update({ data: { name, ... } })
\* returns: the product of both variants has its new name.
UpdateProduct ==
  /\ admin.pc = "idle"
  /\ \E b \in CatalogBodies :
       admin' = [pc |-> IF Len(b) = 0 THEN "log" ELSE "variants",
                 variants |-> b, i |-> 1, status |-> 0]
  /\ descr' = [v \in Variants |-> [descr[v] EXCEPT !.product_name = NewName]]
  /\ UNCHANGED <<workload, statusUpdate, got, cartAdds, stock, price, orders, cart, logs,
                 order_id_seq, pc, req, variants, totalAmount,
                 orderItems, tx, res>>

\* (the update carrying the new price into the order lines of the variant
\* and the totals of their orders)
UpdateVariantReprices ==
  LET e == admin.variants[admin.i]
      Line(l) == IF l.variant_id = e.id
                   THEN [l EXCEPT !.unit_price = e.price,
                                  !.subtotal = e.price * l.quantity]
                   ELSE l
      Sum(ls) == LET RECURSIVE S(_)
                     S(k) == IF k = 0 THEN 0 ELSE S(k - 1) + ls[k].subtotal
                 IN  S(Len(ls))
      Repriced(o) == LET ls == [k \in DOMAIN o.order_items |-> Line(o.order_items[k])]
                     IN  [o EXCEPT !.order_items = ls, !.total_amount = Sum(ls)]
  IN  /\ admin.pc = "variants"
      /\ \A c \in Calls : e.id \notin Locked(c)
      /\ stock' = [stock EXCEPT ![e.id] = e.stock_qty]
      /\ price' = [price EXCEPT ![e.id] = e.price]
      /\ descr' = [descr EXCEPT ![e.id].size = e.size, ![e.id].color = e.color]
      /\ orders' = [n \in DOMAIN orders |-> Repriced(orders[n])]
      /\ admin' = [admin EXCEPT !.i = @ + 1,
                                !.pc = IF admin.i = Len(admin.variants)
                                         THEN "log" ELSE "variants"]
      /\ UNCHANGED <<workload, statusUpdate, got, cartAdds, cart, logs, order_id_seq, pc, req, variants,
                     totalAmount, orderItems, tx, res>>

\* prisma.product_variants.update({ where: { id }, data: { size, color,
\* stock_qty, price } })
\* for the next variant of the request; it waits while a transaction holds
\* the row.
UpdateVariant ==
  LET e == admin.variants[admin.i]
  IN  /\ admin.pc = "variants"
      /\ \A c \in Calls : e.id \notin Locked(c)
      /\ stock' = [stock EXCEPT ![e.id] = e.stock_qty]
      /\ price' = [price EXCEPT ![e.id] = e.price]
      /\ descr' = [descr EXCEPT ![e.id].size = e.size, ![e.id].color = e.color]
      /\ admin' = [admin EXCEPT !.i = @ + 1,
                                !.pc = IF admin.i = Len(admin.variants)
                                         THEN "log" ELSE "variants"]
      /\ UNCHANGED <<workload, statusUpdate, got, cartAdds, orders, cart, logs, order_id_seq, pc, req,
                     variants, totalAmount, orderItems, tx, res>>

\* prisma.activity_logs.create({ action: 'UPDATE_PRODUCT' }) and res.json
UpdateProductLog ==
  /\ admin.pc = "log"
  /\ logs' = Append(logs, [user_id |-> 1, action |-> "UPDATE_PRODUCT",
                           order_id |-> 0, items |-> 0])
  /\ admin' = [admin EXCEPT !.pc = "done", !.status = 200]
  /\ UNCHANGED <<workload, statusUpdate, got, cartAdds, stock, price, descr, orders, cart, order_id_seq, pc, req,
                 variants, totalAmount, orderItems, tx, res>>

\* An awaited store call of the update rejects: catch (error) answers 500
\* and what was written before stays.
UpdateProductThrow ==
  /\ admin.pc \in {"idle", "variants", "log"}
  /\ admin' = [admin EXCEPT !.pc = "done", !.status = 500]
  /\ UNCHANGED <<workload, statusUpdate, got, cartAdds, db, order_id_seq, pc, req, variants, totalAmount,
                 orderItems, tx, res>>

\* ------------------------------------------------- the order status update
\* PUT /api/admin/orders/:id/status, by a single statement of the client.

\* req.params.id and req.body.status of the status updates
StatusBodies == [id : 1..NumCalls, status : {"shipped"}]

\* (the update writing, with the status, the order's total from its lines
\* at the catalogue prices)
UpdateOrderStatusRetotals ==
  /\ statusUpdate.pc = "idle"
  /\ \E b \in StatusBodies :
       /\ \E n \in DOMAIN orders : orders[n].id = b.id
       /\ orders' = [n \in DOMAIN orders |->
                       IF orders[n].id = b.id
                         THEN [orders[n] EXCEPT !.status = b.status,
                                                !.total_amount = 0]
                         ELSE orders[n]]
       /\ statusUpdate' = [pc |-> "log", id |-> b.id, status |-> 0]
  /\ UNCHANGED <<workload, admin, got, cartAdds, stock, price, descr, cart, logs, order_id_seq, pc,
                 req, variants, totalAmount, orderItems, tx, res>>

\* prisma.orders.update({ where: { id: orderId }, data: { status } }) of a
\* committed order (of no such order it rejects: UpdateOrderStatusThrow)
UpdateOrderStatus ==
  /\ statusUpdate.pc = "idle"
  /\ \E b \in StatusBodies :
       /\ \E n \in DOMAIN orders : orders[n].id = b.id
       /\ orders' = [n \in DOMAIN orders |->
                       IF orders[n].id = b.id
                         THEN [orders[n] EXCEPT !.status = b.status]
                         ELSE orders[n]]
       /\ statusUpdate' = [pc |-> "log", id |-> b.id, status |-> 0]
  /\ UNCHANGED <<workload, admin, got, cartAdds, stock, price, descr, cart, logs, order_id_seq, pc,
                 req, variants, totalAmount, orderItems, tx, res>>

\* prisma.activity_logs.create({ action: 'UPDATE_ORDER_STATUS' }) and res.json
UpdateOrderStatusLog ==
  /\ statusUpdate.pc = "log"
  /\ logs' = Append(logs, [user_id |-> 1, action |-> "UPDATE_ORDER_STATUS",
                           order_id |-> 0, items |-> 0])
  /\ statusUpdate' = [statusUpdate EXCEPT !.pc = "done", !.status = 200]
  /\ UNCHANGED <<workload, admin, got, cartAdds, stock, price, descr, orders, cart, order_id_seq, pc,
                 req, variants, totalAmount, orderItems, tx, res>>

\* An awaited store call of the update rejects: catch (error) answers 500
\* and what was written before stays.
UpdateOrderStatusThrow ==
  /\ statusUpdate.pc \in {"idle", "log"}
  /\ statusUpdate' = [statusUpdate EXCEPT !.pc = "done", !.status = 500]
  /\ UNCHANGED <<workload, admin, got, cartAdds, db, order_id_seq, pc, req, variants,
                 totalAmount, orderItems, tx, res>>

\* ------------------------------------------------------ the reads of orders
\* GET /api/orders and GET /api/orders/:id, each one query of the client.
\* The order of the rows of the list (created_at desc) is left out: data is
\* the set of the rows.
\* req.user.id of the reads: one user reads while every user places orders
Readers == {1}
OrderNotFoundMsg == "Order not found"
ServerErrorMsg   == "Server error"

\* include: { order_items: { include: { product_variants: { include:
\* { products: true } } } } }: the order with, on each line, the row of its
\* variant and of its product as they are now
WithVariants(o) ==
  [o EXCEPT !.order_items =
     [k \in DOMAIN o.order_items |->
        o.order_items[k] @@
          [product_variants |->
             [id |-> o.order_items[k].variant_id,
              stock_qty |-> stock[o.order_items[k].variant_id],
              price |-> price[o.order_items[k].variant_id],
              size |-> descr[o.order_items[k].variant_id].size,
              color |-> descr[o.order_items[k].variant_id].color,
              edition |-> descr[o.order_items[k].variant_id].edition,
              products |->
                [name |-> descr[o.order_items[k].variant_id].product_name]]]]]

\* prisma.orders.findMany({ where: { user_id: userId } }) and res.json
GetOrders ==
  /\ \E u \in Readers :
       LET found == {orders[n] : n \in {m \in DOMAIN orders : orders[m].user_id = u}}
       IN  got' = [user |-> u, id |-> 0, status |-> 200, message |-> "",
                   count |-> Cardinality(found),
                   data |-> {WithVariants(o) : o \in found}]
  /\ UNCHANGED <<workload, admin, statusUpdate, cartAdds, db, order_id_seq, placing>>

\* (the query by id alone)
GetOrderOfAnyUser ==
  /\ \E u \in Readers, id \in 1..NumCalls :
       LET found == {orders[n] : n \in {m \in DOMAIN orders : orders[m].id = id}}
       IN  got' = IF found = {}
                    THEN [user |-> u, id |-> id, status |-> 404,
                          message |-> OrderNotFoundMsg, count |-> 0, data |-> {}]
                    ELSE [user |-> u, id |-> id, status |-> 200, message |-> "",
                          count |-> 0,
                          data |-> {WithVariants(o) : o \in found}]
  /\ UNCHANGED <<workload, admin, statusUpdate, cartAdds, db, order_id_seq, placing>>

\* prisma.orders.findFirst({ where: { id: orderId, user_id: userId } }),
\* if (!order) 404, else res.json
GetOrder ==
  /\ \E u \in Readers, id \in 1..NumCalls :
       LET found == {orders[n] : n \in {m \in DOMAIN orders :
                                         /\ orders[m].id = id
                                         /\ orders[m].user_id = u}}
       IN  got' = IF found = {}
                    THEN [user |-> u, id |-> id, status |-> 404,
                          message |-> OrderNotFoundMsg, count |-> 0, data |-> {}]
                    ELSE [user |-> u, id |-> id, status |-> 200, message |-> "",
                          count |-> 0,
                          data |-> {WithVariants(o) : o \in found}]
  /\ UNCHANGED <<workload, admin, statusUpdate, cartAdds, db, order_id_seq, placing>>

\* The query of a read rejects: catch (error) answers 500.
GetThrow ==
  /\ \E u \in Readers :
       got' = [user |-> u, id |-> 0, status |-> 500, message |-> ServerErrorMsg,
               count |-> 0, data |-> {}]
  /\ UNCHANGED <<workload, admin, statusUpdate, cartAdds, db, order_id_seq, placing>>

\* -------------------------------------------------- the addition to a cart
\* POST /api/cart, by single statements of the client, in no transaction.
VariantNotFoundMsg == "Product variant not found"
NoStockToAddMsg    == "Not enough stock available"

\* req.user.id and req.body of the additions: variant 1 or an unknown
\* variant, and a quantity the stock covers or does not cover
AddRequests ==
  [user : Users, variant_id : {1, UnknownId}, quantity : {1, MaxQty, MaxStock + 1}]

\* The addition answers and returns.
AddResponds(a, r, s, m) ==
  adds' = [adds EXCEPT ![a] = [NoAdd EXCEPT !.pc = "done", !.user = r.user,
                                            !.variant_id = r.variant_id,
                                            !.quantity = r.quantity,
                                            !.status = s, !.message = m]]

\* The request arrives and prisma.product_variants.findUnique returns:
\* if (!variant) 404; if (variant.stock_qty < quantity) 400
AddToCart(a) ==
  /\ adds[a].pc = "idle"
  /\ \E r \in AddRequests :
       CASE r.variant_id \notin Variants ->
              AddResponds(a, r, 404, VariantNotFoundMsg)
         [] r.variant_id \in Variants /\ stock[r.variant_id] < r.quantity ->
              AddResponds(a, r, 400, NoStockToAddMsg)
         [] OTHER ->
              adds' = [adds EXCEPT ![a] = [NoAdd EXCEPT !.pc = "find", !.user = r.user,
                                                        !.variant_id = r.variant_id,
                                                        !.quantity = r.quantity]]
  /\ UNCHANGED <<workload, admin, statusUpdate, got, cart_id_seq, db,
                 order_id_seq, placing>>

\* prisma.cart_items.findFirst({ where: { user_id, variant_id } }): a row
\* of the user and the variant (any, if there are several), or none
AddFindExisting(a) ==
  LET rows == {r \in cart : r.user_id = adds[a].user
                              /\ r.variant_id = adds[a].variant_id}
  IN  /\ adds[a].pc = "find"
      /\ IF rows = {}
           THEN adds' = [adds EXCEPT ![a].pc = "write"]
           ELSE \E r \in rows :
                  adds' = [adds EXCEPT ![a].pc = "write",
                                       ![a].existingItem =
                                          [id |-> r.id, quantity |-> r.quantity]]
      /\ UNCHANGED <<workload, admin, statusUpdate, got, cart_id_seq, db,
                     order_id_seq, placing>>

\* if (existingItem) prisma.cart_items.update({ where: { id }, data:
\* { quantity: existingItem.quantity + quantity } }), of a row that is still
\* there (of a deleted row it rejects: AddThrow); else
\* prisma.cart_items.create({ data: { user_id, variant_id, quantity } })
AddWrite(a) ==
  /\ adds[a].pc = "write"
  /\ IF adds[a].existingItem.id # 0
       THEN /\ \E r \in cart : r.id = adds[a].existingItem.id
            /\ cart' = {IF r.id = adds[a].existingItem.id
                          THEN [r EXCEPT !.quantity = adds[a].existingItem.quantity
                                                        + adds[a].quantity]
                          ELSE r : r \in cart}
            /\ UNCHANGED cart_id_seq
       ELSE /\ cart_id_seq' = cart_id_seq + 1
            /\ cart' = cart \cup {[id |-> cart_id_seq + 1,
                                    user_id |-> adds[a].user,
                                    variant_id |-> adds[a].variant_id,
                                    quantity |-> adds[a].quantity]}
  /\ adds' = [adds EXCEPT ![a].pc = "log"]
  /\ UNCHANGED <<workload, admin, statusUpdate, got, stock, price, descr,
                 orders, logs, order_id_seq, placing>>

\* prisma.activity_logs.create({ action: 'ADD_TO_CART' }) and
\* res.status(201).json
AddLog(a) ==
  /\ adds[a].pc = "log"
  /\ logs' = Append(logs, [user_id |-> adds[a].user, action |-> "ADD_TO_CART",
                           order_id |-> 0, items |-> 0])
  /\ adds' = [adds EXCEPT ![a].pc = "done", ![a].status = 201]
  /\ UNCHANGED <<workload, admin, statusUpdate, got, cart_id_seq, stock, price,
                 descr, orders, cart, order_id_seq, placing>>

\* An awaited store call of the addition rejects: catch (error) answers 500
\* and what was written before stays.
AddThrow(a) ==
  /\ adds[a].pc \in {"find", "write", "log"}
  /\ adds' = [adds EXCEPT ![a].pc = "done", ![a].status = 500,
                          ![a].message = ServerErrorMsg]
  /\ UNCHANGED <<workload, admin, statusUpdate, got, cart_id_seq, db,
                 order_id_seq, placing>>

\* ------------------------------------------------------- the specification
Next ==
  \E c \in Calls :
    \/ RejectEmpty(c)
    \/ RejectInvalidItem(c)
    \/ StartFetch(c)
    \/ FetchNotFound(c)
    \/ FetchInsufficient(c)
    \/ FetchOk(c)
    \/ TxCreateOrder(c)
    \/ TxUpdate(c)
    \/ TxClearCart(c)
    \/ TxLog(c)
    \/ TxCommit(c)
    \/ Throw(c)

\* placements in flight together
Spec == Init /\ [][Next]_vars
\* The steps of call c.
Step(c) ==
  \/ RejectEmpty(c)
  \/ RejectInvalidItem(c)
  \/ StartFetch(c)
  \/ FetchNotFound(c)
  \/ FetchInsufficient(c)
  \/ FetchOk(c)
  \/ TxCreateOrder(c)
  \/ TxUpdate(c)
  \/ TxClearCart(c)
  \/ TxLog(c)
  \/ TxCommit(c)
  \/ Throw(c)

\* Placements in flight together on a store that answers every call it is
\* sent: with a result when it can, and with an error otherwise (a wait for
\* a row lock ends with the lock, with the store's deadlock detection or with
\* the timeout of the interactive transaction).
SpecFair == InitWaiting /\ [][Next]_vars /\ \A c \in Calls : WF_vars(Step(c))

\* one placement alone, over every shape of request
SpecSingle == InitSingle /\ [][Next]_vars
\* one placement alone, over the users, their carts and the payment methods
SpecCart == InitCart /\ [][Next]_vars

\* placements and a product update
NextCatalog ==
  \/ Next
  \/ UpdateProduct
  \/ UpdateVariant
  \/ UpdateProductLog
  \/ UpdateProductThrow

\* one placement while an administrator updates a product
SpecCatalog == InitCatalog /\ [][NextCatalog]_vars

\* placements and an order status update
NextStatus ==
  \/ Next
  \/ UpdateOrderStatus
  \/ UpdateOrderStatusLog
  \/ UpdateOrderStatusThrow

\* placements in flight together while an administrator updates the status
\* of an order
SpecStatus == InitStatus /\ [][NextStatus]_vars

\* placements and reads of orders
NextReads ==
  \/ Next
  \/ GetOrders
  \/ GetOrder
  \/ GetThrow

\* placements of two users in flight together while users read their orders
SpecReads == InitReads /\ [][NextReads]_vars

\* additions to carts
NextAdding ==
  \E a \in Adders :
    \/ AddToCart(a)
    \/ AddFindExisting(a)
    \/ AddWrite(a)
    \/ AddLog(a)
    \/ AddThrow(a)

\* additions to the carts of two users in flight together
SpecAdding == InitAdding /\ [][NextAdding]_vars

\* ================================================================ the claims
Items(c)     == req[c].body.items
Answered(c)  == pc[c] = "done"
\* the step in which call c answers
Answers(c)   == pc[c] # "done" /\ pc'[c] = "done"
Succeeded(c) == Answered(c) /\ res[c].status = 201

\* C1: under every interleaving of concurrent placements of the same variant
\* the stock quantity of every variant is >= 0 in every reachable state.
C1_StockNeverNegative == \A v \in Variants : stock[v] >= 0

\* Two placements c and d of the same q units of one variant whose variant
\* queries both read the stock s, q <= s < 2q, and which both answered
\* without a store error.
RacedFor(c, d) ==
  /\ c # d /\ Answered(c) /\ Answered(d)
  /\ res[c].status # 500 /\ res[d].status # 500
  /\ Items(c) = Items(d) /\ Len(Items(c)) = 1
  /\ variants[c] = variants[d]
  /\ \E r \in variants[c] :
       /\ r.id = Items(c)[1].variant_id
       /\ Items(c)[1].quantity.int <= r.stock_qty
       /\ r.stock_qty < 2 * Items(c)[1].quantity.int

\* C2: of two concurrent placements of q units of one variant with
\* q <= stock < 2q exactly one succeeds and the other fails with the
\* insufficient-stock error; both never succeed.
C2_ExactlyOneSucceeds ==
  \A c, d \in Calls :
    RacedFor(c, d) =>
      \/ res[c].status = 201 /\ res[d].message = NoStockMsg
      \/ res[d].status = 201 /\ res[c].message = NoStockMsg

\* C3: a placement that fails at any step inside its transaction leaves no
\* order, order line, stock change, cart deletion or log entry: the committed
\* rows change only in the step in which a placement commits and answers 201.
C3_AllOrNothing ==
  [][db' # db =>
       \E c \in Calls :
         pc[c] = "txCommit" /\ Answers(c) /\ res'[c].status = 201]_vars

\* A placement of two items took an order id inside its transaction and then
\* failed: no order is committed and no other placement has run.
C3_Witness ==
  \E c \in Calls :
    /\ Answered(c) /\ res[c].status = 500 /\ Len(Items(c)) = 2
    /\ order_id_seq = 1 /\ orders = <<>> /\ logs = <<>>
    /\ \A d \in Calls \ {c} : pc[d] = "idle"

\* items is absent, no array, or an empty array
NoItemsGiven(body) == body.kind # "array" \/ body.items = <<>>

\* C4: a placement whose items are absent, no array or empty fails with the
\* empty-order error in its first step, before any variant is read, and
\* leaves the persisted state unchanged.
C4_EmptyOrderRejectedFirst ==
  [][\A c \in Calls :
       (pc[c] = "idle" /\ pc'[c] # "idle" /\ NoItemsGiven(req'[c].body)) =>
         /\ pc'[c] = "done"
         /\ res'[c] = Failure(400, EmptyOrderMsg, 0)
         /\ variants'[c] = {}
         /\ UNCHANGED <<db, order_id_seq>>]_vars

\* placeOrder(user, []) has been refused
C4_Witness ==
  \E c \in Calls :
    /\ Answered(c) /\ req[c].body = ArrayOf(<<>>)
    /\ res[c].message = EmptyOrderMsg /\ orders = <<>>

\* an item with a variant id and a positive integer quantity
WellFormed(item) ==
  item.variant_id # 0 /\ ~item.quantity.half /\ item.quantity.int >= 1

\* C5: a request with an item that lacks a variant id or whose quantity is no
\* positive integer is refused with the invalid-item error before any store
\* access; only requests of well-formed items reach the variant query.
C5_MalformedItemRejectedFirst ==
  \A c \in Calls :
    (pc[c] # "idle" /\ ~NoItemsGiven(req[c].body)
       /\ \E i \in DOMAIN Items(c) : ~WellFormed(Items(c)[i])) =>
      /\ Answered(c)
      /\ res[c] = Failure(400, InvalidItemMsg, 0)
      /\ variants[c] = {}

\* the step in which the variant query of call c returns and the handler
\* runs on from it
QueryReturns(c) == pc[c] = "fetch" /\ pc'[c] # "fetch" /\ res'[c].status # 500

SomeUnknownId(items) == \E i \in DOMAIN items : items[i].variant_id \notin Variants

\* C6: when an item of a placement references a variant id that does not
\* exist, the placement fails with the variant-not-found error once its
\* variant query returns, and no order, order line, stock change, cart
\* deletion or log entry results, also for its other, valid items.
C6_UnknownVariantRejectsAll ==
  [][\A c \in Calls :
       (QueryReturns(c) /\ SomeUnknownId(Items(c))) =>
         /\ pc'[c] = "done"
         /\ res'[c] = Failure(400, NotFoundMsg, 0)
         /\ UNCHANGED <<db, order_id_seq>>]_vars

\* An order of one unit of variant 1, in stock, and of an unknown variant
\* has been refused as not found.
C6_Witness ==
  \E c \in Calls :
    /\ Answered(c) /\ res[c].message = NotFoundMsg
    /\ Items(c) = <<Item(1, Num(1)), Item(UnknownId, Num(1))>>
    /\ stock[1] >= 1 /\ orders = <<>> /\ logs = <<>>

\* C7: a placement fails with the variant-not-found error only if one of its
\* requested ids resolves to no variant; repeating an existing id is not
\* refused as not found.
C7_NotFoundOnlyForUnknownIds ==
  \A c \in Calls :
    (Answered(c) /\ res[c].message = NotFoundMsg) => SomeUnknownId(Items(c))

\* item i asks for more than the committed stock of its variant
Short(items, i) ==
  /\ items[i].variant_id \in Variants
  /\ 2 * stock[items[i].variant_id] < Twice(items[i].quantity)

\* C8: when an item of a placement whose variants all exist asks for more
\* than the stock its variant query reads, the placement fails with the
\* insufficient-stock error, no stock changes and no order is created.
C8_InsufficientStockRejectsAll ==
  [][\A c \in Calls :
       (QueryReturns(c) /\ ~SomeUnknownId(Items(c))
          /\ \E i \in DOMAIN Items(c) : Short(Items(c), i)) =>
         /\ pc'[c] = "done"
         /\ res'[c].status = 400
         /\ res'[c].message = NoStockMsg
         /\ UNCHANGED <<db, order_id_seq>>]_vars

\* item i asks for more than the stock of its variant in the snapshot of c
ShortInSnapshot(c, i) ==
  \E r \in variants[c] :
    /\ r.id = Items(c)[i].variant_id
    /\ 2 * r.stock_qty < Twice(Items(c)[i].quantity)
\* by how much
Shortfall(c, i) ==
  LET r == CHOOSE x \in variants[c] : x.id = Items(c)[i].variant_id
  IN  Twice(Items(c)[i].quantity) - 2 * r.stock_qty

\* C9: the insufficient-stock error names the first item, in the order the
\* items were submitted, that is short of stock in the snapshot.
C9_FirstShortItemReported ==
  \A c \in Calls :
    (Answered(c) /\ res[c].message = NoStockMsg) =>
      \E i \in DOMAIN Items(c) :
        /\ ShortInSnapshot(c, i)
        /\ \A j \in 1..(i - 1) : ~ShortInSnapshot(c, j)
        /\ res[c].variant = Items(c)[i].variant_id

\* Two items are short; the one reported is the first submitted, though the
\* second is shorter of stock and has the smaller variant id.
C9_Witness ==
  \E c \in Calls :
    /\ Answered(c) /\ res[c].message = NoStockMsg
    /\ Len(Items(c)) = 2
    /\ ShortInSnapshot(c, 1) /\ ShortInSnapshot(c, 2)
    /\ Shortfall(c, 2) > Shortfall(c, 1)
    /\ Items(c)[2].variant_id < Items(c)[1].variant_id
    /\ res[c].variant = Items(c)[1].variant_id

\* the unit price of variant id in the snapshot of c, in cents
SnapshotPrice(c, id) == (CHOOSE r \in variants[c] : r.id = id).price

\* the sum of unit price x quantity over the first k items of c, in cents
RECURSIVE SumCents(_, _)
SumCents(c, k) ==
  IF k = 0 THEN 0
  ELSE SumCents(c, k - 1)
         + SnapshotPrice(c, Items(c)[k].variant_id) * Items(c)[k].quantity.int

\* C10: the total_amount of the order a successful placement creates and
\* returns is exactly the sum over its items of the snapshot's unit price
\* times the quantity, in cents.
C10_TotalIsExactSum ==
  \A c \in Calls :
    Succeeded(c) =>
      /\ res[c].data.total_amount = SumCents(c, Len(Items(c)))
      /\ \E n \in DOMAIN orders :
           /\ orders[n].id = res[c].data.id
           /\ orders[n].total_amount = SumCents(c, Len(Items(c)))

\* One unit at 10.00 and two at 19.99 were ordered for 49.98 and the order
\* is committed with that total.
C10_Witness ==
  \E c \in Calls :
    /\ Succeeded(c) /\ Items(c) = <<Item(1, Num(1)), Item(2, Num(2))>>
    /\ res[c].data.total_amount = 4998
    /\ Len(orders) = 1 /\ orders[1].total_amount = 4998

\* the units of variant v that the first k items ask for
RECURSIVE Ordered(_, _, _)
Ordered(items, v, k) ==
  IF k = 0 THEN 0
  ELSE Ordered(items, v, k - 1)
         + (IF items[k].variant_id = v THEN items[k].quantity.int ELSE 0)

\* the step in which call c answers 201
Succeeds(c) == Answers(c) /\ res'[c].status = 201

\* C11: across the step in which a placement that runs alone succeeds, the
\* stock of each ordered variant falls by exactly the quantity ordered of it.
C11_StockFallsByQuantity ==
  [][\A c \in Calls :
       Succeeds(c) =>
         \A i \in DOMAIN Items(c) :
           LET v == Items(c)[i].variant_id
           IN  stock'[v] = stock[v] - Ordered(Items(c), v, Len(Items(c)))]_vars

\* Two units of variant 1 were ordered when its stock was 3; it is 1 now.
C11_Witness ==
  \E c \in Calls :
    /\ Succeeded(c) /\ Items(c) = <<Item(1, Num(2))>>
    /\ \E r \in variants[c] : r.id = 1 /\ r.stock_qty = 3
    /\ stock[1] = 1

\* the cart lines of user u among the rows
CartLines(rows, u) == {r \in rows : r.user_id = u}

\* C12: across the step in which a placement succeeds every cart line of the
\* calling user is deleted, those of variants it did not order included, and
\* the cart lines of the other users stay.
C12_CartClearedOnSuccess ==
  [][\A c \in Calls :
       Succeeds(c) =>
         /\ CartLines(cart', req[c].user) = {}
         /\ \A u \in Users \ {req[c].user} :
              CartLines(cart', u) = CartLines(cart, u)]_vars

\* User 1 ordered variant 1 alone and the cart lines left are those of
\* user 2 (a state reached only from the carts of both users, where user 1
\* had a line of variant 2 as well).
C12_Witness ==
  \E c \in Calls :
    /\ Succeeded(c) /\ req[c].user = 1
    /\ Items(c) = <<Item(1, Num(MaxQty))>>
    /\ cart = CartOf({2})

\* C13: a placement by a user who has no cart line succeeds like any other:
\* across the step in which it succeeds one order and one log entry are
\* added, the ordered stock falls, and the cart table stays as it was.
C13_EmptyCartIsNoObstacle ==
  [][\A c \in Calls :
       (Succeeds(c) /\ CartLines(cart, req[c].user) = {}) =>
         /\ cart' = cart
         /\ Len(orders') = Len(orders) + 1
         /\ Len(logs') = Len(logs) + 1
         /\ \A i \in DOMAIN Items(c) :
              stock'[Items(c)[i].variant_id] < stock[Items(c)[i].variant_id]]_vars

\* User 2, who has no cart line, has placed an order while user 1 has a
\* cart: the order and its log entry are there, the cart of user 1 too.
C13_Witness ==
  \E c \in Calls :
    /\ Succeeded(c) /\ req[c].user = 2
    /\ cart = CartOf({1})
    /\ Len(orders) = 1 /\ Len(logs) = 1
    /\ \E r \in variants[c] : stock[r.id] < r.stock_qty

\* the committed order that call c was answered with
OrderOf(c) == CHOOSE o \in {orders[n] : n \in DOMAIN orders} : o.id = res[c].data.id

\* the order of a successful placement is committed, as it was returned,
\* with status "processing" and paid
CreatedAsProcessing(c) ==
  /\ \E n \in DOMAIN orders : orders[n] = res[c].data
  /\ OrderOf(c).status = "processing"
  /\ OrderOf(c).is_paid

\* C16 (as stated): every order a placement creates has status "processing",
\* is paid, and has the supplied payment_method, or "Credit Card" when the
\* request has no payment_method.
C16_SuppliedOrDefaultWhenAbsent ==
  \A c \in Calls :
    Succeeded(c) =>
      /\ CreatedAsProcessing(c)
      /\ OrderOf(c).payment_method =
           (IF req[c].payment_method = NoPaymentMethod THEN "Credit Card"
            ELSE req[c].payment_method)

\* C16 (amended): every order a placement creates has status "processing",
\* is paid, and has the supplied payment_method, or "Credit Card" when the
\* request has no payment_method or an empty one.
C16_SuppliedOrDefaultWhenEmpty ==
  \A c \in Calls :
    Succeeded(c) =>
      /\ CreatedAsProcessing(c)
      /\ OrderOf(c).payment_method =
           (IF req[c].payment_method = NoPaymentMethod \/ req[c].payment_method = ""
              THEN "Credit Card"
            ELSE req[c].payment_method)

\* An order placed with payment_method "" is committed as paid by
\* "Credit Card", in processing.
C16_Witness ==
  \E c \in Calls :
    /\ Succeeded(c) /\ req[c].payment_method = ""
    /\ Len(orders) = 1 /\ orders[1].payment_method = "Credit Card"
    /\ orders[1].status = "processing" /\ orders[1].is_paid

\* the CREATE_ORDER entries of the activity log
OrderLogs == {n \in DOMAIN logs : logs[n].action = "CREATE_ORDER"}

C15_PriceSnapshotKept ==
  [][\A n \in DOMAIN orders :
       /\ n \in DOMAIN orders'
       /\ orders'[n].total_amount = orders[n].total_amount
       /\ DOMAIN orders'[n].order_items = DOMAIN orders[n].order_items
       /\ \A k \in DOMAIN orders[n].order_items :
            orders'[n].order_items[k].unit_price
              = orders[n].order_items[k].unit_price]_vars

\* An order of variant 1 was created at 10.00 and the product update then
\* set the price of variant 1 to 12.50 (the stock is the one the update
\* wrote, so the order's decrement came before it): the order line and the
\* total still show 10.00.
C15_Witness ==
  /\ admin.pc = "done" /\ admin.status = 200
  /\ admin.variants = <<VariantEdit(1, MaxStock, 1250)>> /\ stock[1] = MaxStock
  /\ Len(orders) = 1 /\ Len(logs) = 2 /\ logs[1].action = "CREATE_ORDER"
  /\ orders[1].order_items[1].variant_id = 1
  /\ orders[1].order_items[1].unit_price = InitPrice(1)
  /\ price[1] # InitPrice(1)
  /\ orders[1].total_amount = InitPrice(1) * orders[1].order_items[1].quantity

\* the step in which tx.activity_logs.create of call c rejects
LogFails(c) == pc[c] = "txLog" /\ pc'[c] # "txLog" /\ pc'[c] # "txCommit"

\* C17: when the append of the activity-log entry fails, the placement fails
\* with the persistence error and nothing of it is committed: no order, no
\* order line, no stock decrement, no cart deletion, and none is left pending.
C17_LogFailureRollsBack ==
  [][\A c \in Calls :
       LogFails(c) =>
         /\ pc'[c] = "done"
         /\ res'[c] = Failure(500, FailedMsg, 0)
         /\ UNCHANGED db
         /\ tx'[c] = NoTx]_vars

\* User 1, who has cart lines, ordered the whole stock of variant 1; the
\* placement took order id 1 and failed inside its transaction: no order
\* and no log entry exist, the stock and the cart lines are as before.
C17_Witness ==
  \E c \in Calls :
    /\ Answered(c) /\ res[c] = Failure(500, FailedMsg, 0)
    /\ req[c].user = 1 /\ Items(c) = <<Item(1, Num(MaxQty))>>
    /\ order_id_seq = 1 /\ orders = <<>> /\ logs = <<>>
    /\ stock[1] = MaxQty /\ cart = CartOf(Users)

\* the step in which the stock update of the next item of call c is written
Decrements(c) == pc[c] = "txUpdate" /\ tx'[c].i = tx[c].i + 1

\* C18: the stock update of an item is written only if the quantity does not
\* exceed the stock of its variant at that moment (the committed stock less
\* what the transaction has already taken); otherwise it fails.
C18_DecrementRefusedWhenShort ==
  [][\A c \in Calls :
       Decrements(c) =>
         LET item == Items(c)[tx[c].i]
             v    == item.variant_id
         IN  item.quantity.int <= stock[v] - tx[c].dec[v]]_vars

\* C19: the body of the insufficient-stock answer carries the product name,
\* the size and the color of the failing item's variant, the quantity that
\* was requested and the quantity that is available.
C19_StockErrorCarriesDetails ==
  \A c \in Calls :
    (Answered(c) /\ res[c].message = NoStockMsg) =>
      LET body == Json(res[c])
      IN  /\ {"productName", "size", "color"} \subseteq DOMAIN body
          /\ body.productName = res[c].variant
          /\ {"requestedQuantity", "availableStock"} \subseteq DOMAIN body
          /\ \E i \in DOMAIN Items(c) :
               /\ Items(c)[i].variant_id = res[c].variant
               /\ body.requestedQuantity = Items(c)[i].quantity
               /\ body.availableStock
                    = (CHOOSE r \in variants[c] : r.id = res[c].variant).stock_qty

\* the one outcome of an answered call: the created order, committed, or an
\* error without an order
Outcome(c) ==
  \/ /\ res[c].status = 201
     /\ \E n \in DOMAIN orders : orders[n] = res[c].data
  \/ /\ res[c].status \in {400, 500}
     /\ res[c].data = NoOrder

\* C20: on a store that answers every call, every placement that has begun
\* is eventually answered; it is answered once, either with the order its
\* transaction committed or with an error, and when it ends inside its
\* transaction without the commit the answer is the persistence error.
C20_EveryPlacementEnds ==
  /\ \A c \in Calls : (pc[c] # "idle") ~> Answered(c)
  /\ [](\A c \in Calls : Answered(c) => Outcome(c))
  /\ [][\A c \in Calls :
          /\ Answered(c) => (pc'[c] = "done" /\ res'[c] = res[c])
          /\ (pc[c] \in TxPcs /\ Answers(c)) =>
               \/ res'[c].status = 201 /\ pc[c] = "txCommit"
               \/ res'[c] = Failure(500, FailedMsg, 0) /\ UNCHANGED db]_vars

\* Two placements that take the rows of variants 1 and 2 in opposite order
\* have both been answered, one with its order, the other with the
\* persistence error after it had begun its transaction.
C20_Witness ==
  \E c, d \in Calls :
    /\ Items(c) = <<Item(1, Num(1)), Item(2, Num(1))>>
    /\ Items(d) = <<Item(2, Num(1)), Item(1, Num(1))>>
    /\ Succeeded(c)
    /\ Answered(d) /\ res[d].status = 500
    /\ order_id_seq = 2 /\ Len(orders) = 1

\* The message of the earliest check that the request of call c fails, in
\* the order empty order, invalid item, variant not found, insufficient
\* stock (against the snapshot); "" when it passes them all.
FirstFailedCheck(c) ==
  CASE NoItemsGiven(req[c].body)                         -> EmptyOrderMsg
    [] \E i \in DOMAIN Items(c) : ~WellFormed(Items(c)[i]) -> InvalidItemMsg
    [] SomeUnknownId(Items(c))                           -> NotFoundMsg
    [] \E i \in DOMAIN Items(c) : ShortInSnapshot(c, i)    -> NoStockMsg
    [] OTHER                                             -> ""

\* C21: a placement is answered with the error of the earliest check its
\* request fails, whatever later checks it would fail too, and then nothing
\* later was done: no variant read after the first two checks, no
\* transaction begun after any of the four.  A request that passes the four
\* checks is answered 201 or with the persistence error.
C21_EarliestCheckAnswers ==
  \A c \in Calls :
    (Answered(c) /\ res[c].status # 500) =>
      IF FirstFailedCheck(c) = ""
        THEN res[c].status = 201
        ELSE /\ res[c] = Failure(400, FirstFailedCheck(c),
                                 IF FirstFailedCheck(c) = NoStockMsg
                                   THEN res[c].variant ELSE 0)
             /\ FirstFailedCheck(c) \in {EmptyOrderMsg, InvalidItemMsg}
                  => variants[c] = {}
             /\ order_id_seq = 0 /\ orders = <<>> /\ logs = <<>>

\* the sum of the subtotals of the first k of the lines
RECURSIVE SumSubtotals(_, _)
SumSubtotals(lines, k) ==
  IF k = 0 THEN 0 ELSE SumSubtotals(lines, k - 1) + lines[k].subtotal

\* C22: in every reachable state, product updates that change prices during
\* a placement included, the subtotal of every order line is its unit_price
\* times its quantity and the total_amount of every order is the sum of the
\* subtotals of its lines.
C22_TotalIsSumOfSubtotals ==
  \A n \in DOMAIN orders :
    LET lines == orders[n].order_items
    IN  /\ \A k \in DOMAIN lines :
             lines[k].subtotal = lines[k].unit_price * lines[k].quantity
        /\ orders[n].total_amount = SumSubtotals(lines, Len(lines))

\* The product update set the price of variant 1 to 12.50 and its stock to
\* MaxStock after a placement had read variant 1 at 10.00 and before it
\* committed (the stock is one below what the update wrote): the order of
\* one unit of each variant has the line of variant 1 at 10.00 and the
\* total 29.99.
C22_Witness ==
  /\ admin.variants = <<VariantEdit(1, MaxStock, 1250)>> /\ admin.i = 2
  /\ price[1] = 1250 /\ stock[1] = MaxStock - 1
  /\ Len(orders) = 1 /\ Len(orders[1].order_items) = 2
  /\ \E k \in 1..2 : /\ orders[1].order_items[k].variant_id = 1
                      /\ orders[1].order_items[k].unit_price = 1000
                      /\ orders[1].order_items[k].subtotal = 1000
  /\ orders[1].total_amount = 2999

\* C23: when a product update lowers the stock of a variant between the
\* variant query of a placement and its decrement, the placement does not
\* take more than the stock there is: the step in which it commits leaves
\* the stock of every variant at 0 or above.
C23_StockKeptUnderCatalogEdit ==
  [][\A c \in Calls :
       Succeeds(c) =>
         \A v \in Variants :
           /\ tx[c].dec[v] <= stock[v]
           /\ stock'[v] >= 0]_vars

\* The order row n without its status.
Placed(o) == [id |-> o.id, user_id |-> o.user_id, total_amount |-> o.total_amount,
              payment_method |-> o.payment_method, is_paid |-> o.is_paid,
              order_items |-> o.order_items]

Snapshot(c, id) == CHOOSE r \in variants[c] : r.id = id

\* C25: the order a successful placement returns has one line per submitted
\* item, in their order, and the line of an item carries its variant id and
\* its quantity with the product name, the size, the color, the edition and
\* the unit price the fetched snapshot holds for that variant.
C25_LinePerItemFromSnapshot ==
  \A c \in Calls :
    Succeeded(c) =>
      LET lines == res[c].data.order_items
      IN  /\ DOMAIN lines = DOMAIN Items(c)
          /\ \A i \in DOMAIN lines :
               LET row == Snapshot(c, Items(c)[i].variant_id)
               IN  /\ lines[i].variant_id = Items(c)[i].variant_id
                   /\ Num(lines[i].quantity) = Items(c)[i].quantity
                   /\ lines[i].product_name = row.product_name
                   /\ lines[i].size = row.size
                   /\ lines[i].color = row.color
                   /\ lines[i].edition = row.edition
                   /\ lines[i].unit_price = row.price

\* an order of two items is returned whose first line describes its variant
\* as the snapshot did, after a product update renamed, resized and
\* recoloured the variant between the fetch and the creation of the order
C25_Witness ==
  /\ Succeeded(1)
  /\ Len(res[1].data.order_items) = 2
  /\ res[1].data.order_items[1].product_name = "Tee"
  /\ res[1].data.order_items[1].color = "black"
  /\ descr[res[1].data.order_items[1].variant_id].product_name = NewName
  /\ descr[res[1].data.order_items[1].variant_id].color = "red"
  /\ orders[1] = res[1].data

\* The units of variant v in the first k lines, and in all the lines, of the
\* first n committed orders.
RECURSIVE LineUnits(_, _, _)
LineUnits(lines, v, k) ==
  IF k = 0 THEN 0
  ELSE LineUnits(lines, v, k - 1)
         + (IF lines[k].variant_id = v THEN lines[k].quantity ELSE 0)
RECURSIVE Sold(_, _, _)
Sold(os, v, n) ==
  IF n = 0 THEN 0
  ELSE Sold(os, v, n - 1)
         + LineUnits(os[n].order_items, v, Len(os[n].order_items))

\* C26: without product updates, under every interleaving of placements,
\* the stock of every variant plus the quantities of the committed order
\* lines of that variant is the same before and after every step: with no
\* order at the start, the initial stock is the current stock plus the
\* quantities sold, no decrement lost and none applied twice.
C26_StockConserved ==
  [][\A v \in Variants :
       stock'[v] + Sold(orders', v, Len(orders'))
         = stock[v] + Sold(orders, v, Len(orders))]_vars

\* two placements that both read variant 1 at its full stock have both
\* committed an order of it, and the stock has fallen by both quantities
C26_Witness ==
  /\ \A c \in {1, 2} : /\ Succeeded(c)
                        /\ \E r \in variants[c] : r.id = 1 /\ r.stock_qty = MaxStock
  /\ Len(orders) = 2
  /\ Sold(orders, 1, 2) >= 2
  /\ stock[1] = MaxStock - Sold(orders, 1, 2)

\* C27: the step in which a placement by user U succeeds leaves the stock of
\* every variant its items do not reference, the cart lines of every user
\* other than U, and every order, order line and activity-log entry that
\* existed before, as they were.
C27_SuccessTouchesOnlyItsOwn ==
  [][\A c \in Calls :
       Succeeds(c) =>
         /\ \A v \in Variants :
              (\A i \in DOMAIN Items(c) : Items(c)[i].variant_id # v)
                => stock'[v] = stock[v]
         /\ \A u \in Users \ {req[c].user} : CartLines(cart', u) = CartLines(cart, u)
         /\ Len(orders') >= Len(orders) /\ SubSeq(orders', 1, Len(orders)) = orders
         /\ Len(logs') >= Len(logs) /\ SubSeq(logs', 1, Len(logs)) = logs]_vars

\* two users have each placed an order of variant 1 alone: variant 2 has its
\* full stock, and the first order and its log entry are followed by the
\* second's
C27_Witness ==
  /\ Len(orders) = 2 /\ Len(logs) = 2
  /\ orders[1].user_id # orders[2].user_id
  /\ \A n \in {1, 2} : /\ \A k \in DOMAIN orders[n].order_items :
                             orders[n].order_items[k].variant_id = 1
                        /\ logs[n].order_id = orders[n].id
  /\ stock[2] = MaxStock
  /\ stock[1] < MaxStock

\* C28: in every reachable state every committed order has at least one
\* line, every line a quantity of at least 1, and the order is the one a
\* placement answered 201 with, its user the authenticated user of that
\* request.
C28_OrdersWellFormed ==
  \A n \in DOMAIN orders :
    /\ Len(orders[n].order_items) >= 1
    /\ \A k \in DOMAIN orders[n].order_items : orders[n].order_items[k].quantity >= 1
    /\ \E c \in Calls : /\ Succeeded(c)
                         /\ res[c].data = orders[n]
                         /\ orders[n].user_id = req[c].user

\* the orders of two users are committed, one of them with two lines
C28_Witness ==
  /\ Len(orders) = 2
  /\ orders[1].user_id = req[2].user /\ orders[2].user_id = req[1].user
  /\ req[1].user # req[2].user
  /\ Len(orders[1].order_items) = 2
  /\ orders[2].order_items[1].quantity = MaxQty

\* The orders of user u, and of them alone, in the order of their commit.
OwnOrders(u) == SelectSeq(orders, LAMBDA o : o.user_id = u)
\* The order o of a read's answer without the variant rows on its lines.
Bare(o) ==
  [o EXCEPT !.order_items =
     [k \in DOMAIN o.order_items |->
        [f \in DOMAIN o.order_items[k] \ {"product_variants"} |->
           o.order_items[k][f]]]]
\* A read is answered.
Reads == got' # got /\ got'.status # 500

\* The step of a read returns the caller's orders alone: all of them for
\* the list, and for the read by id the caller's order of that id, or 404
\* when the caller has none.
ReturnsOwnOrders ==
  LET own == {OwnOrders(got'.user)[n] : n \in DOMAIN OwnOrders(got'.user)}
      mine == {o \in own : o.id = got'.id}
  IN  /\ \A r \in got'.data : r.user_id = got'.user
      /\ got'.id = 0 => /\ got'.status = 200
                        /\ {Bare(r) : r \in got'.data} = own
      /\ got'.id # 0 => IF mine = {}
                          THEN got'.status = 404 /\ got'.data = {}
                                 /\ got'.message = OrderNotFoundMsg
                          ELSE got'.status = 200
                                 /\ {Bare(r) : r \in got'.data} = mine

\* C29 (as stated): a read returns the caller's orders alone, and nothing in
\* its answer depends on the orders of another user: the stock its lines
\* show for a variant is the stock of the start less what the caller's own
\* orders took.
C29_ReadsIndependentOfOthers ==
  [][Reads =>
       /\ ReturnsOwnOrders
       /\ \A r \in got'.data : \A k \in DOMAIN r.order_items :
            LET v == r.order_items[k].variant_id
                own == OwnOrders(got'.user)
            IN  r.order_items[k].product_variants.stock_qty
                  = (CHOOSE s \in InitStocks(workload) : TRUE)[v]
                      - Sold(own, v, Len(own))]_vars

\* C29 (amended): a read returns the caller's orders alone, all of them for
\* the list and the one of the id, or not-found, for the read by id; the
\* orders and order lines of its answer do not depend on the orders of other
\* users, while the variant and product rows shown with each line are the
\* catalogue's of the moment, whose stock every user's orders lower.
C29_ReadsReturnOwnOrders ==
  [][Reads =>
       /\ ReturnsOwnOrders
       /\ \A r \in got'.data : \A k \in DOMAIN r.order_items :
            LET v == r.order_items[k].variant_id
            IN  /\ r.order_items[k].product_variants.stock_qty = stock[v]
                /\ r.order_items[k].product_variants.price = price[v]
                /\ r.order_items[k].product_variants.products.name
                     = descr[v].product_name]_vars

\* user 1 has listed their orders after user 2 placed one too: the list
\* holds the one order of user 1, and its line of variant 1 shows a stock
\* that the order of user 2 has lowered
C29_Witness ==
  /\ got.status = 200 /\ got.id = 0 /\ got.user = 1
  /\ Len(orders) = 2 /\ Len(OwnOrders(1)) = 1 /\ Len(OwnOrders(2)) = 1
  /\ \E r \in got.data :
       /\ got.data = {r}
       /\ Bare(r) = OwnOrders(1)[1]
       /\ \E k \in DOMAIN r.order_items :
            /\ r.order_items[k].variant_id = 1
            /\ r.order_items[k].product_variants.stock_qty = stock[1]
            /\ stock[1] = MaxQty - Sold(orders, 1, 2)
            /\ Sold(OwnOrders(2), 1, 1) > 0

\* The cart lines of user u for variant v, and the sum of their quantities.
LinesOf(rows, u, v) == {r \in rows : r.user_id = u /\ r.variant_id = v}
RECURSIVE SumQuantity(_)
SumQuantity(rows) ==
  IF rows = {} THEN 0
  ELSE LET r == CHOOSE x \in rows : TRUE
       IN  r.quantity + SumQuantity(rows \ {r})
\* The quantities of variant v that the first k additions, answered 201,
\* added to the cart of user u.
RECURSIVE Added(_, _, _)
Added(u, v, k) ==
  IF k = 0 THEN 0
  ELSE Added(u, v, k - 1)
         + (IF adds[k].status = 201 /\ adds[k].user = u /\ adds[k].variant_id = v
              THEN adds[k].quantity ELSE 0)
\* No addition is in flight and none has failed on the store.
AddsSettled == \A a \in Adders : adds[a].pc \in {"idle", "done"} /\ adds[a].status # 500

\* C30: once the additions to carts, in flight together or not, have been
\* answered, every user has at most one cart line per variant, and its
\* quantity is what the cart held of the variant at the start plus the
\* quantities added.
C30_OneLinePerVariantSummed ==
  AddsSettled =>
    \A u \in Users, v \in Variants :
      /\ Cardinality(LinesOf(cart, u, v)) <= 1
      /\ SumQuantity(LinesOf(cart, u, v))
           = SumQuantity(LinesOf(CHOOSE c \in InitCarts(workload) : TRUE, u, v))
               + Added(u, v, NumAdders)

====
